---- MODULE Spec2Model ----
(***************************************************************************)
(* Model of skewer_to_blend/convert.py: the conversion of a Skewer scene   *)
(* description (Y-up) into a Blender scene (Z-up).                         *)
(*                                                                         *)
(* Numbers are exact: coordinates are integers, and the quotients the code *)
(* forms (2.0 / max_dim, c / strength) are rationals <<n, d>> in lowest    *)
(* terms with d > 0.  Floating-point rounding is not modelled.             *)
(***************************************************************************)
EXTENDS Integers, Sequences, FiniteSets, TLC

VARIABLES
    data,           \* the parsed scene description (json.loads), main's input
    bsdf_names,     \* names of the inputs the host's Principled BSDF has
    pc,             \* position in main() / add_obj()
    idx,            \* enumerate() index of the object being processed (0-based)
    materials,      \* main's lookup dict: name -> created material
    camera,         \* the camera object, NoCamera before camera_add
    render,         \* the scene's render settings
    objects,        \* bpy.data.objects, in creation order
    imported_objs,  \* add_obj's imported_objs: indices into objects
    stdout,         \* the lines printed
    ops,            \* the host operators called, in call order
    saved,          \* TRUE once save_as_mainfile has run
    error,          \* the uncaught exception that ended the run, or NoError
    arg,            \* argument of the pure function under test
    ret             \* its results

vars == <<data, bsdf_names, pc, idx, materials, camera, render, objects,
          imported_objs, stdout, ops, saved, error, arg, ret>>

(***************************************************************************)
(* Bounds                                                                  *)
(***************************************************************************)
\* largest absolute coordinate of the vectors the pure functions are tried on
MaxCoord == 1
\* longest objects list of a scene description
MaxObjs == 3

Coords == (0 - MaxCoord)..MaxCoord
Grid == {<<x, y, z>> : x \in Coords, y \in Coords, z \in Coords}

(***************************************************************************)
(* Exact arithmetic                                                        *)
(***************************************************************************)
Abs(n) == IF n < 0 THEN 0 - n ELSE n

RECURSIVE GCD(_, _)
GCD(a, b) == IF b = 0 THEN a ELSE GCD(b, a % b)

\* the rational n/d (d # 0) in lowest terms with a positive denominator
Rat(n, d) ==
    LET g == GCD(Abs(n), Abs(d))
        s == IF d < 0 THEN 0 - 1 ELSE 1
    IN  <<(s * n) \div g, (s * d) \div g>>

RInt(n) == <<n, 1>>
RAdd(p, q) == Rat(p[1] * q[2] + q[1] * p[2], p[2] * q[2])
RSub(p, q) == Rat(p[1] * q[2] - q[1] * p[2], p[2] * q[2])
RMul(p, q) == Rat(p[1] * q[1], p[2] * q[2])
RDiv(p, q) == Rat(p[1] * q[2], p[2] * q[1])
RLess(p, q) == p[1] * q[2] < q[1] * p[2]
RMin(p, q) == IF RLess(q, p) THEN q ELSE p
RMax(p, q) == IF RLess(p, q) THEN q ELSE p

RECURSIVE RMinOf(_)
RMinOf(S) ==
    LET x == CHOOSE y \in S : TRUE
    IN  IF S = {x} THEN x ELSE RMin(x, RMinOf(S \ {x}))

RECURSIVE RMaxOf(_)
RMaxOf(S) ==
    LET x == CHOOSE y \in S : TRUE
    IN  IF S = {x} THEN x ELSE RMax(x, RMaxOf(S \ {x}))

\* integer and rational 3-vectors
RVec(v) == <<RInt(v[1]), RInt(v[2]), RInt(v[3])>>
Dot(v, w) == v[1] * w[1] + v[2] * w[2] + v[3] * w[3]
Cross(v, w) == <<v[2] * w[3] - v[3] * w[2],
                 v[3] * w[1] - v[1] * w[3],
                 v[1] * w[2] - v[2] * w[1]>>
VSub(v, w) == <<v[1] - w[1], v[2] - w[2], v[3] - w[3]>>
VNeg(v) == <<0 - v[1], 0 - v[2], 0 - v[3]>>
ZeroVec == <<0, 0, 0>>

(***************************************************************************)
(* Coordinate system conversion                                            *)
(***************************************************************************)
to_blender_signslip(v) == <<v[1], v[3], v[2]>>

\* (xs, ys, zs) -> (xs, -zs, ys)
to_blender(v) == <<v[1], 0 - v[3], v[2]>>

(***************************************************************************)
(* Materials                                                               *)
(***************************************************************************)
\* dict.get(k, default) on a JSON object, modelled as a record
Get(d, k, default) == IF k \in DOMAIN d THEN d[k] ELSE default

\* Python truthiness of mat_def.get("emission"): None and [] are falsy,
\* every non-empty list is truthy, whatever its elements
Truthy(d, k) == k \in DOMAIN d /\ Len(d[k]) > 0

\* max() of a non-empty list of integers
RECURSIVE MaxOfSeq(_)
MaxOfSeq(s) ==
    IF Len(s) = 1 THEN s[1]
    ELSE LET m == MaxOfSeq(Tail(s)) IN IF s[1] >= m THEN s[1] ELSE m

\* inputs every Principled BSDF has, in 3.x and in 4.x
StableNames == {"Base Color", "Roughness", "Metallic", "IOR"}
\* inputs whose name depends on the host's version
VersionNames == {"Specular IOR Level", "Specular", "Transmission Weight",
                 "Transmission", "Emission Color", "Emission",
                 "Emission Strength"}

\* bpy.data.materials.new + the two nodes: nothing written yet
NewMaterial(name) ==
    [name |-> name, inputs |-> <<>>, blend_method |-> "DEFAULT",
     raised |-> FALSE]

Put(w, k, val) == [n \in DOMAIN w \cup {k} |-> IF n = k THEN val ELSE w[n]]

\* bsdf.inputs[name].default_value = val; KeyError when the input is absent
Assign(m, name, val) ==
    IF m.raised THEN m
    ELSE IF name \in bsdf_names
         THEN [m EXCEPT !.inputs = Put(m.inputs, name, val)]
         ELSE [m EXCEPT !.raised = TRUE]

Caught(m) == [m EXCEPT !.raised = FALSE]

Pass(m) == m

\* the innermost "except KeyError: pass" missing
SetWithFallback_nopass(m, primary, fallback, val) ==
    IF m.raised THEN m
    ELSE LET a == Assign(m, primary, val)
         IN  IF ~a.raised THEN a
             ELSE Assign(Caught(a), fallback, val)

\* one logical field: try the 4.x name; except KeyError: try the 3.x name;
\* except KeyError: pass
SetWithFallback(m, primary, fallback, val) ==
    IF m.raised THEN m
    ELSE LET a == Assign(m, primary, val)
         IN  IF ~a.raised THEN a
             ELSE LET b == Assign(Caught(a), fallback, val)
                  IN  IF ~b.raised THEN b ELSE Pass(Caught(b))

\* the two emission inputs under either naming; what the first block wrote
\* before it raised stays written
SetEmission(m, color_rgba, strength) ==
    IF m.raised THEN m
    ELSE LET a == Assign(Assign(m, "Emission Color", color_rgba),
                         "Emission Strength", strength)
         IN  IF ~a.raised THEN a
             ELSE LET b == Assign(Assign(Caught(a), "Emission", color_rgba),
                                  "Emission Strength", strength)
                  IN  IF ~b.raised THEN b ELSE Pass(Caught(b))

Lambertian(m, albedo_rgba) ==
    SetWithFallback(
        Assign(Assign(Assign(m, "Base Color", albedo_rgba),
                      "Roughness", RInt(1)),
               "Metallic", RInt(0)),
        "Specular IOR Level", "Specular", RInt(0))

Metal(m, albedo_rgba, mat_def) ==
    Assign(Assign(Assign(m, "Base Color", albedo_rgba),
                  "Metallic", RInt(1)),
           "Roughness", Get(mat_def, "roughness", RInt(0)))

Dielectric(m, albedo_rgba, mat_def) ==
    LET t == SetWithFallback(
                 Assign(Assign(Assign(m, "Base Color", albedo_rgba),
                               "IOR", Get(mat_def, "ior", Rat(3, 2))),
                        "Roughness", RInt(0)),
                 "Transmission Weight", "Transmission", RInt(1))
    IN  IF t.raised THEN t ELSE [t EXCEPT !.blend_method = "HASHED"]

Emission(m, mat_def) ==
    IF Truthy(mat_def, "emission")
    THEN LET emission == mat_def["emission"]
             strength == MaxOfSeq(emission)
             color == IF strength > 0
                      THEN [k \in 1..Len(emission) |-> Rat(emission[k], strength)]
                      ELSE [k \in 1..Len(emission) |-> RInt(emission[k])]
         IN  SetEmission(m, color \o <<RInt(1)>>, RInt(strength))
    ELSE m

create_material(name, mat_def) ==
    LET mtype == Get(mat_def, "type", "lambertian")
        albedo == Get(mat_def, "albedo", <<1, 1, 1>>)
        albedo_rgba == RVec(albedo) \o <<RInt(1)>>
        m0 == NewMaterial(name)
        m1 == IF mtype = "lambertian" THEN Lambertian(m0, albedo_rgba)
              ELSE IF mtype = "metal" THEN Metal(m0, albedo_rgba, mat_def)
              ELSE IF mtype = "dielectric"
                   THEN Dielectric(m0, albedo_rgba, mat_def)
                   ELSE m0
    IN  Emission(m1, mat_def)

(***************************************************************************)
(* Camera                                                                  *)
(*                                                                         *)
(* A direction [num, den2] stands for the vector num / sqrt(den2), so the  *)
(* unit vectors of the look-at frame are exact.                            *)
(***************************************************************************)
Vector(v) == [num |-> v, den2 |-> 1]

DSub(a, b) == [num |-> VSub(a.num, b.num), den2 |-> 1]

\* mathutils: normalizing a zero-length vector yields the zero vector and
\* raises nothing
normalized(a) ==
    IF a.num = ZeroVec THEN [num |-> ZeroVec, den2 |-> 1]
    ELSE [num |-> a.num, den2 |-> Dot(a.num, a.num)]

cross(a, b) == [num |-> Cross(a.num, b.num), den2 |-> a.den2 * b.den2]

DNeg(a) == [num |-> VNeg(a.num), den2 |-> a.den2]

NoCamera == [exists |-> FALSE]

\* the camera object after setup_camera; matrix_world is kept by columns
setup_camera(cam_data) ==
    LET look_from == to_blender(cam_data.look_from)
        look_at == to_blender(cam_data.look_at)
        vup == to_blender(cam_data.vup)
        forward == normalized(DSub(Vector(look_at), Vector(look_from)))
        right == normalized(cross(forward, Vector(vup)))
        up == cross(right, forward)
    IN  [exists |-> TRUE,
         matrix_world |-> [right |-> right, up |-> up, back |-> DNeg(forward),
                           translation |-> look_from],
         sensor_fit |-> "VERTICAL",
         \* math.radians(vfov), in units of pi
         angle |-> Rat(cam_data.vfov, 180)]

(***************************************************************************)
(* Render settings                                                         *)
(***************************************************************************)
NoRender == [engine |-> "DEFAULT"]

\* Path(outfile).stem of a file name kept as [stem, suffix]
Stem(f) == f.stem

setup_render(render_data) ==
    LET img == Get(render_data, "image", <<>>)
        outfile == Get(img, "exrfile",
                       Get(img, "outfile", [stem |-> "render", suffix |-> ""]))
    IN  [engine |-> "CYCLES",
         samples |-> Get(render_data, "samples_per_pixel", 128),
         max_bounces |-> Get(render_data, "max_depth", 8),
         resolution_x |-> Get(img, "width", 800),
         resolution_y |-> Get(img, "height", 600),
         film_transparent |-> FALSE,
         filepath |-> Stem(outfile),
         background |-> [color |-> <<0, 0, 0, 1>>, strength |-> 0]]

(***************************************************************************)
(* Objects                                                                 *)
(***************************************************************************)
ROne == RVec(<<1, 1, 1>>)
RZero == RVec(ZeroVec)

\* a host object; lo and hi are the corners of its data's bounding box in
\* local coordinates, src the index of the object definition it came from
NewObject(name, type, src, location, lo, hi) ==
    [name |-> name, type |-> type, src |-> src,
     location |-> location, scale |-> ROne,
     rotation_euler |-> ZeroVec, order |-> "XYZ",
     lo |-> lo, hi |-> hi, verts |-> <<>>, materials |-> <<>>]

\* the objects of Blender's startup scene
DefaultObjects ==
    <<NewObject("Cube", "MESH", 0 - 1, RZero, RVec(<<0 - 1, 0 - 1, 0 - 1>>), ROne),
      NewObject("Camera", "CAMERA", 0 - 1, RZero, RZero, RZero),
      NewObject("Light", "LIGHT", 0 - 1, RZero, RZero, RZero)>>

Min2(a, b) == IF a <= b THEN a ELSE b
Max2(a, b) == IF a >= b THEN a ELSE b

\* primitive_uv_sphere_add(radius, location=center)
SphereObject(obj_def, src) ==
    LET center == to_blender(obj_def.center)
        r == obj_def.radius
    IN  NewObject("Sphere", "MESH", src, RVec(center),
                  RVec(<<0 - r, 0 - r, 0 - r>>), RVec(<<r, r, r>>))

\* mesh.from_pydata(verts, [], [(0, 1, 2, 3)]) linked as Quad_<idx>
QuadObject(obj_def, src) ==
    LET verts == [k \in 1..Len(obj_def.vertices) |->
                     to_blender(obj_def.vertices[k])]
        lo == [a \in 1..3 |->
                 Min2(Min2(verts[1][a], verts[2][a]),
                      Min2(verts[3][a], verts[4][a]))]
        hi == [a \in 1..3 |->
                 Max2(Max2(verts[1][a], verts[2][a]),
                      Max2(verts[3][a], verts[4][a]))]
    IN  [NewObject(<<"Quad", src>>, "MESH", src, RZero, RVec(lo), RVec(hi))
            EXCEPT !.verts = verts]

\* what the host's importer makes of one object of an OBJ file
ImportedObject(f, src) ==
    [NewObject("Imported", f.type, src, RVec(f.location),
               RVec(f.lo), RVec(f.hi))
        EXCEPT !.scale = RVec(<<f.scale, f.scale, f.scale>>),
               !.materials = <<"from_mtl">>]

\* o.bound_box: the eight corners of the local bounding box
bound_box(o) ==
    {<<x, y, z>> : x \in {o.lo[1], o.hi[1]}, y \in {o.lo[2], o.hi[2]},
                   z \in {o.lo[3], o.hi[3]}}

\* o.matrix_world @ corner, for an object that is not rotated
WorldCorner(o, corner) ==
    [a \in 1..3 |-> RAdd(o.location[a], RMul(o.scale[a], corner[a]))]

WorldCorners(objs) ==
    UNION {{WorldCorner(o, c) : c \in bound_box(o)} : o \in objs}

\* min_c and max_c after the loops over a non-empty set of objects
min_c(objs) == [a \in 1..3 |-> RMinOf({wc[a] : wc \in WorldCorners(objs)})]
max_c(objs) == [a \in 1..3 |-> RMaxOf({wc[a] : wc \in WorldCorners(objs)})]

max_dim(objs) ==
    LET extent == [a \in 1..3 |-> RSub(max_c(objs)[a], min_c(objs)[a])]
    IN  RMaxOf({extent[a] : a \in 1..3})

\* the guard missing: 2.0 / 0 raises ZeroDivisionError
normalize_unguarded(o, objs) ==
    IF max_dim(objs)[1] = 0 THEN [obj |-> o, raised |-> TRUE]
    ELSE LET norm_scale == RDiv(RInt(2), max_dim(objs))
             centroid == [a \in 1..3 |->
                            RDiv(RAdd(min_c(objs)[a], max_c(objs)[a]), RInt(2))]
         IN  [obj |-> [o EXCEPT
                 !.location = [a \in 1..3 |->
                     RSub(o.location[a], RMul(centroid[a], norm_scale))],
                 !.scale = [a \in 1..3 |-> RMul(o.scale[a], norm_scale)]],
              raised |-> FALSE]

\* stage 1 on one of the imported objects objs
normalize(o, objs) ==
    IF RLess(RInt(0), max_dim(objs))
    THEN LET norm_scale == RDiv(RInt(2), max_dim(objs))
             centroid == [a \in 1..3 |->
                            RDiv(RAdd(min_c(objs)[a], max_c(objs)[a]), RInt(2))]
         IN  [obj |-> [o EXCEPT
                 !.location = [a \in 1..3 |->
                     RSub(o.location[a], RMul(centroid[a], norm_scale))],
                 !.scale = [a \in 1..3 |-> RMul(o.scale[a], norm_scale)]],
              raised |-> FALSE]
    ELSE [obj |-> o, raised |-> FALSE]

transform_apply_noop(o) == o

\* bpy.ops.object.transform_apply(location=True, scale=True) on one object:
\* location and scale move into the data, the object keeps its place
transform_apply(o) ==
    [o EXCEPT
        !.lo = [a \in 1..3 |->
                   RMin(WorldCorner(o, o.lo)[a], WorldCorner(o, o.hi)[a])],
        !.hi = [a \in 1..3 |->
                   RMax(WorldCorner(o, o.lo)[a], WorldCorner(o, o.hi)[a])],
        !.location = RZero,
        !.scale = ROne]

ConvertAngles_nosign(rotate) == <<rotate[1], rotate[3], rotate[2]>>

\* (rx, ry, rz) -> Blender's (X, Y, Z) slots: rx, -rz, ry (degrees)
ConvertAngles(rotate) == <<rotate[1], 0 - rotate[3], rotate[2]>>

\* stage 2 on one imported object
scene_transform(o, obj_def) ==
    LET tf == Get(obj_def, "transform", <<>>)
        scale == Get(tf, "scale", <<1, 1, 1>>)
        rotate == Get(tf, "rotate", <<0, 0, 0>>)
        translate == Get(tf, "translate", <<0, 0, 0>>)
    IN  [o EXCEPT
            !.scale = RVec(<<scale[1], scale[3], scale[2]>>),
            !.order = "ZXY",
            !.rotation_euler = ConvertAngles(rotate),
            !.location = RVec(to_blender(translate))]

override_material_all(o, mat) == [o EXCEPT !.materials = <<mat.name>>]

\* materials.clear() and append(mat), on mesh objects only
override_material(o, mat) ==
    IF o.type = "MESH" THEN [o EXCEPT !.materials = <<mat.name>>] ELSE o

(***************************************************************************)
(* Rotations by multiples of 90 degrees, as 3x3 integer matrices (rows)    *)
(***************************************************************************)
Cos(d) == LET q == (d \div 90) % 4
          IN  IF q = 0 THEN 1 ELSE IF q = 2 THEN 0 - 1 ELSE 0
Sin(d) == LET q == (d \div 90) % 4
          IN  IF q = 1 THEN 1 ELSE IF q = 3 THEN 0 - 1 ELSE 0

RotX(d) == <<<<1, 0, 0>>, <<0, Cos(d), 0 - Sin(d)>>, <<0, Sin(d), Cos(d)>>>>
RotY(d) == <<<<Cos(d), 0, Sin(d)>>, <<0, 1, 0>>, <<0 - Sin(d), 0, Cos(d)>>>>
RotZ(d) == <<<<Cos(d), 0 - Sin(d), 0>>, <<Sin(d), Cos(d), 0>>, <<0, 0, 1>>>>

MatVec(m, v) == <<Dot(m[1], v), Dot(m[2], v), Dot(m[3], v)>>
MatMul(m, n) ==
    [r \in 1..3 |-> [c \in 1..3 |->
        m[r][1] * n[1][c] + m[r][2] * n[2][c] + m[r][3] * n[3][c]]]

\* the orientation of an object whose rotation_euler is e in order "ZXY":
\* the turn about Z is applied first, then X, then Y
EulerZXY(e) == MatMul(RotY(e[2]), MatMul(RotX(e[1]), RotZ(e[3])))

\* the renderer's rotation of an object by (rx, ry, rz), order YXZ
SourceRotation(rotate) ==
    MatMul(RotY(rotate[2]), MatMul(RotX(rotate[1]), RotZ(rotate[3])))

Basis == {<<1, 0, 0>>, <<0, 1, 0>>, <<0, 0, 1>>}

(***************************************************************************)
(* Inputs                                                                  *)
(***************************************************************************)
Names4x == StableNames \cup {"Specular IOR Level", "Transmission Weight",
                             "Emission Color", "Emission Strength"}
Names3x == StableNames \cup {"Specular", "Transmission", "Emission",
                             "Emission Strength"}

EmissionChoices == {<<>>, <<0, 0, 0>>, <<2, 4, 8>>, <<1, 0, 0>>}

BaseMatDefs ==
    {[type |-> "lambertian", albedo |-> <<1, 1, 1>>]}
    \cup {[type |-> "metal"]}
    \cup {[type |-> "metal", roughness |-> Rat(1, 2)]}
    \cup {[type |-> "dielectric"]}
    \cup {[type |-> "dielectric", ior |-> Rat(4, 3)]}
    \cup {[albedo |-> <<1, 0, 0>>]}
    \cup {[type |-> "volume"]}

MatDefs == BaseMatDefs \cup {Put(d, "emission", e) : d \in BaseMatDefs,
                                                     e \in EmissionChoices}

\* the camera of the end-to-end scenario
StdCamera == [look_from |-> <<0, 0, 5>>, look_at |-> <<0, 1, 0>>,
              vup |-> <<0, 1, 0>>, vfov |-> 40]

CamDefs == {[look_from |-> f, look_at |-> a, vup |-> u, vfov |-> 40] :
               f \in {<<0, 0, 0>>, <<0, 0, 1>>}, a \in Grid, u \in Grid}

\* one object of an OBJ file as the importer delivers it
FileObjects ==
    {[type |-> t, lo |-> b[1], hi |-> b[2], location |-> l, scale |-> k] :
        t \in {"MESH", "CURVE"},
        b \in {<<<<0 - 3, 0 - 3, 0 - 3>>, <<3, 3, 3>>>>,
               <<<<0 - 1, 0 - 2, 0>>, <<1, 2, 0>>>>,
               <<<<1, 1, 1>>, <<1, 1, 1>>>>},
        l \in {<<0, 0, 0>>, <<2, 0, 0>>},
        k \in {1, 2}}

CubeFile == <<[type |-> "MESH", lo |-> <<0 - 3, 0 - 3, 0 - 3>>,
               hi |-> <<3, 3, 3>>, location |-> <<0, 0, 0>>, scale |-> 1]>>
EmptyFile == <<>>

\* OBJ files of one object, or of two meshes
Files == {<<a>> : a \in FileObjects}
         \cup {<<a, b>> : a \in {f \in FileObjects : f.type = "MESH"},
                          b \in {f \in FileObjects : f.type = "MESH"}}

Transforms ==
    {[scale |-> <<1, 2, 3>>, rotate |-> <<90, 0, 0>>,
      translate |-> <<1, 2, 3>>]}
    \cup {[translate |-> <<0, 0, 4>>]}

MaterialRefs == {"m1", "missing"}

AssetDefs(files) ==
    {[type |-> "obj", file |-> f, material |-> m] :
        f \in files, m \in MaterialRefs}
    \cup {[type |-> "obj", file |-> f, material |-> m, auto_fit |-> TRUE] :
        f \in files, m \in MaterialRefs}

TransformedAssetDefs(files) ==
    {Put(d, "transform", t) : d \in AssetDefs(files), t \in Transforms}

PrimitiveDefs ==
    {[type |-> "sphere", center |-> <<0, 1, 0>>, radius |-> 1,
      material |-> m] : m \in MaterialRefs}
    \cup {[type |-> "quad",
           vertices |-> <<<<0, 0, 0>>, <<1, 0, 0>>, <<1, 0, 1>>, <<0, 0, 1>>>>,
           material |-> m] : m \in MaterialRefs}
    \cup {[type |-> "unsupported_primitive", material |-> "m1"]}

\* the objects of the short lists
ListDefs ==
    PrimitiveDefs
    \cup AssetDefs({EmptyFile})
    \cup {[type |-> "obj", file |-> CubeFile, material |-> "missing"]}
    \cup {[type |-> "obj", file |-> CubeFile, material |-> "m1",
           auto_fit |-> TRUE]}

ShortLists == UNION {[1..n -> ListDefs] : n \in 0..MaxObjs}

\* one asset, over every file and transform
AssetLists ==
    {<<d>> : d \in AssetDefs(Files) \cup TransformedAssetDefs(Files)}

SceneMaterials == [m1 |-> [type |-> "dielectric", emission |-> <<2, 4, 8>>]]

(***************************************************************************)
(* main()                                                                  *)
(***************************************************************************)
Init ==
    /\ \/ /\ data \in {[materials |-> SceneMaterials, camera |-> StdCamera,
                        objects |-> l] : l \in ShortLists}
          /\ bsdf_names = Names4x
       \/ /\ data \in {[materials |-> SceneMaterials, camera |-> StdCamera,
                        objects |-> l] : l \in AssetLists}
          /\ bsdf_names \in {Names3x, Names4x}
    /\ pc = "clear"
    /\ idx = 0
    /\ materials = <<>>
    /\ camera = NoCamera
    /\ render = NoRender
    /\ objects = DefaultObjects
    /\ imported_objs = <<>>
    /\ stdout = <<>>
    /\ ops = <<>>
    /\ saved = FALSE
    /\ error = "none"
    /\ arg = <<>>
    /\ ret = <<>>

\* clear_scene()
ClearScene ==
    /\ pc = "clear"
    /\ objects' = <<>>
    /\ ops' = ops \o <<<<"select_all", 0 - 1>>, <<"delete", 0 - 1>>>>
    /\ pc' = "materials"
    /\ UNCHANGED <<data, bsdf_names, idx, materials, camera, render,
                   imported_objs, stdout, saved, error, arg, ret>>

\* the materials dict comprehension
CreateMaterials ==
    /\ pc = "materials"
    /\ LET defs == Get(data, "materials", <<>>)
           made == [n \in DOMAIN defs |-> create_material(n, defs[n])]
       IN  IF \E n \in DOMAIN made : made[n].raised
           THEN /\ error' = "KeyError"
                /\ pc' = "aborted"
                /\ UNCHANGED materials
           ELSE /\ materials' = made
                /\ pc' = "camera"
                /\ UNCHANGED error
    /\ UNCHANGED <<data, bsdf_names, idx, camera, render, objects,
                   imported_objs, stdout, ops, saved, arg, ret>>

SetupCamera ==
    /\ pc = "camera"
    /\ camera' = setup_camera(data.camera)
    /\ ops' = Append(ops, <<"camera_add", 0 - 1>>)
    /\ pc' = "render"
    /\ UNCHANGED <<data, bsdf_names, idx, materials, render, objects,
                   imported_objs, stdout, saved, error, arg, ret>>

SetupRender ==
    /\ pc = "render"
    /\ render' = setup_render(Get(data, "render", <<>>))
    /\ pc' = "objects"
    /\ idx' = 0
    /\ UNCHANGED <<data, bsdf_names, materials, camera, objects,
                   imported_objs, stdout, ops, saved, error, arg, ret>>

ObjectDefs == Get(data, "objects", <<>>)
InLoop == pc = "objects" /\ idx < Len(ObjectDefs)
\* obj_def of the current iteration (enumerate counts from 0)
ObjDef == ObjectDefs[idx + 1]
OType == Get(ObjDef, "type", "None")

\* materials[obj_def["material"]] does not raise KeyError
Resolves(obj_def) ==
    "material" \in DOMAIN obj_def /\ obj_def.material \in DOMAIN materials

AddPrimitive(o, op) ==
    /\ ops' = Append(ops, <<op, idx>>)
    /\ IF Resolves(ObjDef)
       THEN /\ objects' = Append(objects,
                [o EXCEPT !.materials = <<materials[ObjDef.material].name>>])
            /\ idx' = idx + 1
            /\ UNCHANGED <<pc, error>>
       ELSE /\ objects' = Append(objects, o)
            /\ error' = "KeyError"
            /\ pc' = "aborted"
            /\ UNCHANGED idx
    /\ UNCHANGED <<data, bsdf_names, materials, camera, render,
                   imported_objs, stdout, saved, arg, ret>>

AddSphere ==
    /\ InLoop
    /\ OType = "sphere"
    /\ AddPrimitive(SphereObject(ObjDef, idx), "primitive_uv_sphere_add")

AddQuad ==
    /\ InLoop
    /\ OType = "quad"
    /\ AddPrimitive(QuadObject(ObjDef, idx), "from_pydata")

\* an unknown type raising instead of being skipped
SkipUnknown_raise ==
    /\ InLoop
    /\ OType \notin {"sphere", "quad", "obj"}
    /\ error' = "ValueError"
    /\ pc' = "aborted"
    /\ UNCHANGED <<data, bsdf_names, idx, materials, camera, render, objects,
                   imported_objs, stdout, ops, saved, arg, ret>>

\* the else branch of main's dispatch
SkipUnknown ==
    /\ InLoop
    /\ OType \notin {"sphere", "quad", "obj"}
    /\ stdout' = Append(stdout, <<"Warning: unknown object type", idx>>)
    /\ idx' = idx + 1
    /\ UNCHANGED <<data, bsdf_names, pc, materials, camera, render, objects,
                   imported_objs, ops, saved, error, arg, ret>>

\* add_obj up to "if not imported_objs: return"
ObjImport ==
    /\ InLoop
    /\ OType = "obj"
    /\ LET file == ObjDef.file
           new == [k \in 1..Len(file) |-> ImportedObject(file[k], idx)]
       IN  /\ objects' = objects \o new
           /\ imported_objs' = [k \in 1..Len(file) |-> Len(objects) + k]
           /\ ops' = ops \o <<<<"select_all", idx>>, <<"obj_import", idx>>>>
           /\ IF Len(file) = 0
              THEN /\ stdout' = Append(stdout,
                          <<"Warning: OBJ import produced no objects", idx>>)
                   /\ idx' = idx + 1
                   /\ UNCHANGED pc
              ELSE /\ pc' = IF Get(ObjDef, "auto_fit", FALSE)
                            THEN "obj_fit" ELSE "obj_transform"
                   /\ UNCHANGED <<stdout, idx>>
    /\ UNCHANGED <<data, bsdf_names, materials, camera, render, saved,
                   error, arg, ret>>

Imported == {objects[imported_objs[k]] : k \in 1..Len(imported_objs)}
IsImported(n) == \E k \in 1..Len(imported_objs) : imported_objs[k] = n

\* the auto_fit bounding box and the update of location and scale
ObjFit ==
    /\ pc = "obj_fit"
    /\ LET fit == [n \in 1..Len(objects) |->
                      IF IsImported(n) THEN normalize(objects[n], Imported)
                      ELSE [obj |-> objects[n], raised |-> FALSE]]
       IN  IF \E n \in 1..Len(objects) : fit[n].raised
           THEN /\ error' = "ZeroDivisionError"
                /\ pc' = "aborted"
                /\ UNCHANGED <<objects, ops>>
           ELSE /\ objects' = [n \in 1..Len(objects) |-> fit[n].obj]
                /\ ops' = Append(ops, <<"normalize", idx>>)
                /\ pc' = "obj_bake"
                /\ UNCHANGED error
    /\ UNCHANGED <<data, bsdf_names, idx, materials, camera, render,
                   imported_objs, stdout, saved, arg, ret>>

\* select the imported objects and apply location + scale
ObjBake ==
    /\ pc = "obj_bake"
    /\ objects' = [n \in 1..Len(objects) |->
                      IF IsImported(n) THEN transform_apply(objects[n])
                      ELSE objects[n]]
    /\ ops' = ops \o <<<<"select_all", idx>>, <<"transform_apply", idx>>>>
    /\ pc' = "obj_transform"
    /\ UNCHANGED <<data, bsdf_names, idx, materials, camera, render,
                   imported_objs, stdout, saved, error, arg, ret>>

\* the scene-level transform
ObjTransform ==
    /\ pc = "obj_transform"
    /\ objects' = [n \in 1..Len(objects) |->
                      IF IsImported(n) THEN scene_transform(objects[n], ObjDef)
                      ELSE objects[n]]
    /\ ops' = Append(ops, <<"transform", idx>>)
    /\ pc' = "obj_material"
    /\ UNCHANGED <<data, bsdf_names, idx, materials, camera, render,
                   imported_objs, stdout, saved, error, arg, ret>>

\* the material override, and the return to main's loop
ObjMaterial ==
    /\ pc = "obj_material"
    /\ IF Resolves(ObjDef)
       THEN /\ objects' = [n \in 1..Len(objects) |->
                   IF IsImported(n)
                   THEN override_material(objects[n],
                                          materials[ObjDef.material])
                   ELSE objects[n]]
            /\ ops' = Append(ops, <<"material", idx>>)
            /\ idx' = idx + 1
            /\ pc' = "objects"
            /\ UNCHANGED error
       ELSE /\ error' = "KeyError"
            /\ pc' = "aborted"
            /\ UNCHANGED <<objects, ops, idx>>
    /\ UNCHANGED <<data, bsdf_names, materials, camera, render,
                   imported_objs, stdout, saved, arg, ret>>

\* after the loop: save_as_mainfile and the final print
Save ==
    /\ pc = "objects"
    /\ idx = Len(ObjectDefs)
    /\ saved' = TRUE
    /\ ops' = Append(ops, <<"save_as_mainfile", 0 - 1>>)
    /\ stdout' = Append(stdout, <<"Saved", 0 - 1>>)
    /\ pc' = "done"
    /\ UNCHANGED <<data, bsdf_names, idx, materials, camera, render, objects,
                   imported_objs, error, arg, ret>>

Next ==
    \/ ClearScene
    \/ CreateMaterials
    \/ SetupCamera
    \/ SetupRender
    \/ AddSphere
    \/ AddQuad
    \/ SkipUnknown
    \/ ObjImport
    \/ ObjFit
    \/ ObjBake
    \/ ObjTransform
    \/ ObjMaterial
    \/ Save

Spec == Init /\ [][Next]_vars

(***************************************************************************)
(* The functions on their own                                              *)
(***************************************************************************)
\* the state of a host in which main() is not running
Idle ==
    /\ data = <<>>
    /\ idx = 0
    /\ materials = <<>>
    /\ camera = NoCamera
    /\ render = NoRender
    /\ objects = <<>>
    /\ imported_objs = <<>>
    /\ stdout = <<>>
    /\ ops = <<>>
    /\ saved = FALSE
    /\ error = "none"
    /\ ret = <<>>

\* the documented inverse of to_blender: (x, y, z) -> (x, z, -y)
from_blender(v) == <<v[1], v[3], 0 - v[2]>>

\* ---- to_blender on pairs of vectors
InitAxis ==
    /\ Idle
    /\ bsdf_names = Names4x
    /\ arg \in {[v |-> v, w |-> w] : v \in Grid, w \in Grid}
    /\ pc = "axis_call"

AxisConvert ==
    /\ pc = "axis_call"
    /\ ret' = [tv |-> to_blender(arg.v), tw |-> to_blender(arg.w)]
    /\ pc' = "axis_converted"
    /\ UNCHANGED <<data, bsdf_names, idx, materials, camera, render, objects,
                   imported_objs, stdout, ops, saved, error, arg>>

AxisAgain ==
    /\ pc = "axis_converted"
    /\ ret' = [tv |-> ret.tv, tw |-> ret.tw, twice |-> to_blender(ret.tv)]
    /\ pc' = "axis_twice"
    /\ UNCHANGED <<data, bsdf_names, idx, materials, camera, render, objects,
                   imported_objs, stdout, ops, saved, error, arg>>

AxisInverse ==
    /\ pc = "axis_converted"
    /\ ret' = [tv |-> ret.tv, tw |-> ret.tw, back |-> from_blender(ret.tv)]
    /\ pc' = "axis_back"
    /\ UNCHANGED <<data, bsdf_names, idx, materials, camera, render, objects,
                   imported_objs, stdout, ops, saved, error, arg>>

NextAxis == AxisConvert \/ AxisAgain \/ AxisInverse

SpecAxis == InitAxis /\ [][NextAxis]_vars

\* ---- the rotation of stage 2, on quarter turns
QuarterTurns == {0, 90, 180, 270}

InitRot ==
    /\ Idle
    /\ bsdf_names = Names4x
    /\ arg \in {[rotate |-> <<rx, ry, rz>>, axis |-> e] :
                   rx \in QuarterTurns, ry \in QuarterTurns,
                   rz \in QuarterTurns, e \in Basis}
    /\ pc = "rot_call"

\* the Blender orientation add_obj sets, applied to the converted axis
RotTarget ==
    /\ pc = "rot_call"
    /\ ret' = [target |-> MatVec(EulerZXY(ConvertAngles(arg.rotate)),
                                 to_blender(arg.axis))]
    /\ pc' = "rot_target"
    /\ UNCHANGED <<data, bsdf_names, idx, materials, camera, render, objects,
                   imported_objs, stdout, ops, saved, error, arg>>

\* the renderer's rotation of the axis, converted
RotSource ==
    /\ pc = "rot_target"
    /\ ret' = [target |-> ret.target,
               source |-> to_blender(MatVec(SourceRotation(arg.rotate),
                                            arg.axis))]
    /\ pc' = "rot_done"
    /\ UNCHANGED <<data, bsdf_names, idx, materials, camera, render, objects,
                   imported_objs, stdout, ops, saved, error, arg>>

NextRot == RotTarget \/ RotSource

SpecRot == InitRot /\ [][NextRot]_vars

\* ---- create_material on every host version
InitMat ==
    /\ Idle
    /\ bsdf_names \in {StableNames \cup S : S \in SUBSET VersionNames}
    /\ arg \in {[name |-> "m", mat_def |-> d] : d \in MatDefs}
    /\ pc = "mat_call"

CallCreateMaterial ==
    /\ pc = "mat_call"
    /\ ret' = create_material(arg.name, arg.mat_def)
    /\ pc' = "mat_done"
    /\ UNCHANGED <<data, bsdf_names, idx, materials, camera, render, objects,
                   imported_objs, stdout, ops, saved, error, arg>>

NextMat == CallCreateMaterial

SpecMat == InitMat /\ [][NextMat]_vars

\* ---- setup_camera on every look-at triple of the grid
InitCam ==
    /\ Idle
    /\ bsdf_names = Names4x
    /\ arg \in CamDefs
    /\ pc = "cam_call"

CallSetupCamera ==
    /\ pc = "cam_call"
    /\ camera' = setup_camera(arg)
    /\ ops' = Append(ops, <<"camera_add", 0 - 1>>)
    /\ pc' = "cam_done"
    /\ UNCHANGED <<data, bsdf_names, idx, materials, render, objects,
                   imported_objs, stdout, saved, error, arg, ret>>

NextCam == CallSetupCamera

SpecCam == InitCam /\ [][NextCam]_vars

(***************************************************************************)
(* Properties                                                              *)
(***************************************************************************)
KnownTypes == {"sphere", "quad", "obj"}
TypeOf(d) == Get(d, "type", "None")
IsUnknown(d) == TypeOf(d) \notin KnownTypes
Refs(d) == "material" \in DOMAIN d /\ d.material \in DOMAIN SceneMaterials
\* the definitions main's loop has finished with
Processed == IF pc \in {"clear", "materials", "camera", "render"} THEN {}
             ELSE 1..idx
\* src of the host objects made by the loop, in creation order
Sources == [n \in 1..Len(objects) |-> objects[n].src]
MadeFor(k) == \E n \in 1..Len(objects) : objects[n].src = k - 1
Warned(k) ==
    \E n \in 1..Len(stdout) :
        stdout[n] = <<"Warning: unknown object type", k - 1>>
\* the imported objects of an asset definition, straight from the importer
Fresh(d, k) == {ImportedObject(d.file[j], k - 1) : j \in 1..Len(d.file)}
FitRequested(d) == TypeOf(d) = "obj" /\ Get(d, "auto_fit", FALSE)

\* C1 as stated: in every run on a list with an object of unknown type, that
\* object is skipped with a warning, every other object of the list is
\* instantiated, in input order, and the scene is saved at the end.
C1_UnknownSkippedAllOthersMade ==
    (pc \in {"done", "aborted"}
        /\ \E k \in 1..Len(ObjectDefs) : IsUnknown(ObjectDefs[k]))
    => /\ saved
       /\ \A k \in 1..Len(ObjectDefs) :
            IF IsUnknown(ObjectDefs[k]) THEN Warned(k) /\ ~MadeFor(k)
            ELSE MadeFor(k)
       /\ \A n \in 1..Len(objects) - 1 : Sources[n] <= Sources[n + 1]

\* C1 amended: an object of unknown type is skipped with a warning and never
\* ends the run itself; a run ends early only at an object of a known type
\* whose material reference does not resolve. In every run that reaches the
\* end, the scene is saved and every other object, except an asset whose
\* import yields no objects, is instantiated, in input order.
C1_UnknownSkipped ==
    /\ \A k \in Processed :
         IsUnknown(ObjectDefs[k]) => Warned(k) /\ ~MadeFor(k)
    /\ pc = "aborted" =>
         /\ ~IsUnknown(ObjectDefs[idx + 1])
         /\ ~Refs(ObjectDefs[idx + 1])
         /\ error = "KeyError"
    /\ pc = "done" =>
         /\ saved
         /\ \A k \in 1..Len(ObjectDefs) :
              MadeFor(k) <=>
                 /\ ~IsUnknown(ObjectDefs[k])
                 /\ TypeOf(ObjectDefs[k]) = "obj" =>
                        Len(ObjectDefs[k].file) > 0
         /\ \A n \in 1..Len(objects) - 1 : Sources[n] <= Sources[n + 1]

C1_Witness ==
    /\ pc = "done"
    /\ Len(ObjectDefs) = 3
    /\ TypeOf(ObjectDefs[1]) = "sphere"
    /\ IsUnknown(ObjectDefs[2])
    /\ TypeOf(ObjectDefs[3]) = "quad"
    /\ Sources = <<0, 2>>

\* C2: every sphere, quad or asset whose material reference does not resolve
\* stops the conversion, so a run that completes and saves has none.
C2_UnresolvedIsFatal ==
    saved =>
        \A k \in 1..Len(ObjectDefs) :
            ~IsUnknown(ObjectDefs[k]) => Refs(ObjectDefs[k])

\* world bounding box of a set of objects
CentroidAtOrigin(objs) ==
    \A a \in 1..3 : RAdd(min_c(objs)[a], max_c(objs)[a]) = RInt(0)

\* C5: when auto_fit is requested and the imported objects' combined world
\* bounding box has max_dim > 0, then after the update of location and scale
\* its centroid is the origin and its largest extent is exactly 2.
C5_FitCentersAndScales ==
    (pc = "obj_bake" /\ RLess(RInt(0), max_dim(Fresh(ObjDef, idx + 1))))
    => /\ CentroidAtOrigin(Imported)
       /\ max_dim(Imported) = RInt(2)

\* the asset definition k was handled with a degenerate bounding box
DegenerateFit(k) ==
    /\ FitRequested(ObjectDefs[k])
    /\ Len(ObjectDefs[k].file) > 0
    /\ ~RLess(RInt(0), max_dim(Fresh(ObjectDefs[k], k)))

SceneLevelApplied(o, d) ==
    LET tf == Get(d, "transform", <<>>)
        sc == Get(tf, "scale", <<1, 1, 1>>)
        ro == Get(tf, "rotate", <<0, 0, 0>>)
        tr == Get(tf, "translate", <<0, 0, 0>>)
    IN  /\ o.scale = RVec(<<sc[1], sc[3], sc[2]>>)
        /\ o.order = "ZXY"
        /\ o.rotation_euler = <<ro[1], 0 - ro[3], ro[2]>>
        /\ o.location = RVec(<<tr[1], 0 - tr[3], tr[2]>>)

StepsOf(k) ==
    LET mine == SelectSeq(ops, LAMBDA e : e[2] = k - 1 /\ e[1] # "select_all")
    IN  [n \in 1..Len(mine) |-> mine[n][1]]

FitOrder == <<"obj_import", "normalize", "transform_apply", "transform",
              "material">>

\* the world bounding box of imported object j after normalization
NormalizedBox(d, k, j) ==
    LET o == normalize(ImportedObject(d.file[j], k - 1), Fresh(d, k)).obj
    IN  [lo |-> [a \in 1..3 |->
                    RMin(WorldCorner(o, o.lo)[a], WorldCorner(o, o.hi)[a])],
         hi |-> [a \in 1..3 |->
                    RMax(WorldCorner(o, o.lo)[a], WorldCorner(o, o.hi)[a])]]

\* C10: for an asset with auto_fit requested, add_obj's steps run in the
\* order import, normalization, bake, scene-level assignment, material
\* override. When the scene-level transform is assigned, the normalization
\* is already baked: every imported object has location 0 and scale 1 and
\* carries the normalized geometry in its data, and after the assignment its
\* scale is the scene-level scale alone, over that same normalized data.
C10_FitBakedBeforeSceneTransform ==
    /\ \A k \in 1..Len(ObjectDefs) :
         (FitRequested(ObjectDefs[k]) /\ Len(ObjectDefs[k].file) > 0) =>
            /\ Len(StepsOf(k)) <= Len(FitOrder)
            /\ StepsOf(k) = SubSeq(FitOrder, 1, Len(StepsOf(k)))
            /\ k \in Processed => StepsOf(k) = FitOrder
    /\ (pc \in {"obj_transform", "obj_material"} /\ FitRequested(ObjDef)) =>
         \A j \in 1..Len(imported_objs) :
            LET o == objects[imported_objs[j]]
                box == NormalizedBox(ObjDef, idx + 1, j)
            IN  /\ o.lo = box.lo
                /\ o.hi = box.hi
                /\ pc = "obj_transform" =>
                      o.location = RZero /\ o.scale = ROne
                /\ pc = "obj_material" => SceneLevelApplied(o, ObjDef)

C10_Witness ==
    /\ pc = "obj_material"
    /\ FitRequested(ObjDef)
    /\ RLess(RInt(0), max_dim(Fresh(ObjDef, idx + 1)))
    /\ "transform" \in DOMAIN ObjDef
    /\ Len(imported_objs) = 2
    /\ objects[imported_objs[1]].lo # RVec(ObjDef.file[1].lo)

\* determinant of the linear map to_blender, from the images of the basis
Det ==
    Dot(to_blender(<<1, 0, 0>>),
        Cross(to_blender(<<0, 1, 0>>), to_blender(<<0, 0, 1>>)))

\* C7: to_blender is a proper rotation: its determinant is +1 and it keeps
\* the dot product of every two vectors; applied twice it does not give the
\* vector back (it is not self-inverse), while (x, y, z) -> (x, z, -y)
\* applied after it does.
C7_ProperRotation ==
    /\ Det = 1
    /\ pc \in {"axis_converted", "axis_twice", "axis_back"} =>
          Dot(ret.tv, ret.tw) = Dot(arg.v, arg.w)
    /\ pc = "axis_back" => ret.back = arg.v
    /\ (pc = "axis_twice" /\ (arg.v[2] # 0 \/ arg.v[3] # 0)) =>
          ret.twice # arg.v

C7_Witness ==
    /\ pc = "axis_back"
    /\ arg.v = <<1, 1, 0 - 1>>
    /\ arg.w = <<0, 1, 1>>
    /\ ret.tv = <<1, 1, 1>>

\* C6: for the source rotations (90,0,0), (0,90,0) and (0,0,90), the
\* orientation set in Blender, Euler (rx, -rz, ry) in order ZXY, takes each
\* converted axis vector to the conversion of the source-rotated axis.
C6_RotationMapping ==
    (pc = "rot_done"
        /\ arg.rotate \in {<<90, 0, 0>>, <<0, 90, 0>>, <<0, 0, 90>>})
    => ret.target = ret.source

C6_Witness ==
    /\ pc = "rot_done"
    /\ arg.rotate = <<0, 0, 90>>
    /\ arg.axis = <<1, 0, 0>>
    /\ ret.source = <<0, 0, 1>>

EmissionNames == {"Emission Color", "Emission", "Emission Strength"}
Written == DOMAIN ret.inputs
HasPositive(e) == \E k \in 1..Len(e) : e[k] > 0

\* C4: when emission is absent or (0,0,0), create_material writes neither an
\* emission colour input nor the emission strength input. When emission has
\* a positive component, the strength written is the maximum component and
\* the colour c written satisfies c * strength = emission.
C4_NoEmissionWhenZero ==
    pc = "mat_done" =>
        LET d == arg.mat_def
        IN  /\ ("emission" \notin DOMAIN d) => Written \cap EmissionNames = {}
            /\ ("emission" \in DOMAIN d /\ d.emission = <<0, 0, 0>>) =>
                  Written \cap EmissionNames = {}
            /\ ("emission" \in DOMAIN d /\ HasPositive(d.emission)) =>
                  /\ "Emission Strength" \in Written =>
                        ret.inputs["Emission Strength"]
                            = RInt(MaxOfSeq(d.emission))
                  /\ \A n \in Written \cap {"Emission Color", "Emission"} :
                        \A k \in 1..3 :
                            RMul(ret.inputs[n][k], RInt(MaxOfSeq(d.emission)))
                                = RInt(d.emission[k])

\* the input that a logical field with these two names ends up in
FieldWritten(primary, fallback, val) ==
    /\ primary \in bsdf_names =>
          primary \in Written /\ ret.inputs[primary] = val
    /\ (primary \notin bsdf_names /\ fallback \in bsdf_names) =>
          fallback \in Written /\ ret.inputs[fallback] = val
    /\ primary \notin bsdf_names => primary \notin Written
    /\ fallback \notin bsdf_names => fallback \notin Written

Is(n, val) == n \in Written /\ ret.inputs[n] = val

\* C9: whichever of the version-dependent inputs the host has,
\* create_material does not abort: each logical field goes to its primary
\* name, else to its fallback name, else is dropped, and the material is
\* returned with base colour, metallic, roughness, IOR and blend method set
\* as for its kind.
C9_MissingInputsTolerated ==
    pc = "mat_done" =>
        LET d == arg.mat_def
            kind == Get(d, "type", "lambertian")
            rgba == RVec(Get(d, "albedo", <<1, 1, 1>>)) \o <<RInt(1)>>
        IN  /\ ~ret.raised
            /\ ret.name = arg.name
            /\ kind = "lambertian" =>
                  /\ Is("Base Color", rgba)
                  /\ Is("Roughness", RInt(1))
                  /\ Is("Metallic", RInt(0))
                  /\ FieldWritten("Specular IOR Level", "Specular", RInt(0))
            /\ kind = "metal" =>
                  /\ Is("Base Color", rgba)
                  /\ Is("Metallic", RInt(1))
                  /\ Is("Roughness", Get(d, "roughness", RInt(0)))
            /\ kind = "dielectric" =>
                  /\ Is("Base Color", rgba)
                  /\ Is("IOR", Get(d, "ior", Rat(3, 2)))
                  /\ Is("Roughness", RInt(0))
                  /\ FieldWritten("Transmission Weight", "Transmission",
                                  RInt(1))
                  /\ ret.blend_method = "HASHED"
            /\ ("emission" \in DOMAIN d /\ HasPositive(d.emission)) =>
                  /\ "Emission Color" \in bsdf_names =>
                        "Emission Color" \in Written
                  /\ ("Emission Color" \notin bsdf_names
                        /\ "Emission" \in bsdf_names) =>
                        "Emission" \in Written

C9_Witness ==
    /\ pc = "mat_done"
    /\ bsdf_names = StableNames
    /\ Get(arg.mat_def, "type", "lambertian") = "dielectric"
    /\ "emission" \in DOMAIN arg.mat_def
    /\ arg.mat_def.emission = <<2, 4, 8>>
    /\ ret.blend_method = "HASHED"

\* look_from = look_at, or vup parallel to look_at - look_from
DegenerateCamera(c) ==
    \/ c.look_from = c.look_at
    \/ Cross(VSub(c.look_at, c.look_from), c.vup) = ZeroVec

IsUnit(a) == Dot(a.num, a.num) = a.den2

\* C3: setup_camera raises a configuration error, and assigns no world
\* matrix, when look_from = look_at or vup is parallel to the view
\* direction; otherwise it assigns the matrix whose columns are the
\* orthonormal right, up and -forward and whose translation is look_from.
C3_DegenerateCameraRejected ==
    pc = "cam_done" =>
        IF DegenerateCamera(arg)
        THEN error # "none" /\ ~camera.exists
        ELSE LET m == camera.matrix_world
                 fwd == VSub(to_blender(arg.look_at),
                             to_blender(arg.look_from))
             IN  /\ m.translation = to_blender(arg.look_from)
                 /\ m.back.num = VNeg(fwd)
                 /\ IsUnit(m.right) /\ IsUnit(m.up) /\ IsUnit(m.back)
                 /\ Dot(m.right.num, m.up.num) = 0
                 /\ Dot(m.right.num, m.back.num) = 0
                 /\ Dot(m.up.num, m.back.num) = 0
                 /\ m.right.num = Cross(fwd, to_blender(arg.vup))

====
